---- MODULE Spec2Model ----
(***************************************************************************)
(* Model of the Book controller of src/src/main.rs: main loads the         *)
(* kubeconfig, builds a client, initialises an informer for the "books"    *)
(* custom resource and then loops forever: poll, then pop every queued     *)
(* event and pass it to handle.  Every fallible call is unwrapped with     *)
(* expect, so a failure is a panic of the only thread.                     *)
(***************************************************************************)
EXTENDS Integers, Sequences, FiniteSets, TLC

\* ------------------------------------------------------------ bounds
\* Number of notifications the API server delivers in one execution.
MaxEvents == 3
\* Largest number of notifications one poll returns.
MaxBatch == 2
\* Longest author list of a Book that is encoded and decoded.
MaxAuthors == 2

\* ------------------------------------------------------------ data
None == "none"

\* Book.authors is Option<Vec<String>>: the empty set is None, {v} is
\* Some(v).
NoAuthors == {}
SomeAuthors(v) == {v}

\* struct Book { title, authors }
Book(title, authors) == [title |-> title, authors |-> authors]

\* The objects the server reports (KubeBook = Object<Book, Void>):
\* metadata.name and spec.
Objects ==
    { [name |-> "dune", spec |-> Book("Dune", NoAuthors)],
      [name |-> "dune", spec |-> Book("Dune", SomeAuthors(<<"Frank Herbert">>))],
      [name |-> "emma", spec |-> Book("Emma", NoAuthors)] }

\* Type strings of the server's notifications; BOOKMARK is one the
\* WatchEvent arms of handle do not name.
Types == {"ADDED", "MODIFIED", "DELETED", "BOOKMARK"}

\* No event is bound (pop returned None, or handle has consumed it).
NoEvent == [kind |-> "NoEvent"]

\* Failures next_batch / poll can report.
PollErrors == {"Transient", "Closed", "Fatal"}

\* A raw notification {type, resourceVersion, object}.
RawNotification(t, rv, o) == [type |-> t, rv |-> rv, object |-> o]

\* Mapping of the server's type string to the kind of the change event.
KindOf(t) ==
    CASE t = "ADDED" -> "Added"
      [] t = "MODIFIED" -> "Modified"
      [] t = "DELETED" -> "Deleted"
      [] t = "ERROR" -> "Error"
      [] OTHER -> "BookmarkOrUnknown"

\* Normalisation of one notification into a change event.
Normalize(n) == [kind |-> KindOf(n.type), rv |-> n.rv, book |-> n.object]

NormalizeAll(ns) == [i \in 1..Len(ns) |-> Normalize(ns[i])]

Max(a, b) == IF a >= b THEN a ELSE b

RECURSIVE HighestVersion(_, _)
HighestVersion(cur, ns) ==
    IF ns = <<>> THEN cur
    ELSE HighestVersion(Max(cur, Head(ns).rv), Tail(ns))

\* The cursor moved one past the highest version observed.
AdvanceCursor_Ahead(cur, ns) ==
    IF ns = <<>> THEN cur ELSE HighestVersion(cur, ns) + 1

\* The cursor after a successful batch: the highest version observed.
AdvanceCursor(cur, ns) == HighestVersion(cur, ns)

\* What the three arms of handle print.
HandleOutput(e) ==
    CASE e.kind = "Added" -> <<"Added a book", e.book.name, e.book.spec.title>>
      [] e.kind = "Deleted" -> <<"Deleted a book", e.book.name>>
      [] OTHER -> <<"another event">>

\* ------------------------------------------------------------ codec
\* #[derive(Serialize, Deserialize)] on Book: the wire form is an object
\* with the struct's fields; a wire value is a string, null or an array.
JString(str) == [json |-> "string", v |-> str]
JNull == [json |-> "null"]
JArray(list) == [json |-> "array", v |-> [i \in 1..Len(list) |-> JString(list[i])]]

\* The list held by Some(list).
Unwrap(opt) == CHOOSE list \in opt : TRUE

\* Serialize: title as a string; authors as null for None, as an array
\* of strings for Some.
Encode(b) ==
    [title |-> JString(b.title),
     authors |-> IF b.authors = NoAuthors THEN JNull
                 ELSE JArray(Unwrap(b.authors))]

DecodeOk(b) == [ok |-> TRUE, book |-> b]
DecodeError(msg) == [ok |-> FALSE, error |-> msg]

\* Deserialize with a missing or null Option field read as Some([]).
Decode_NullAsEmpty(w) ==
    IF "title" \notin DOMAIN w THEN DecodeError("missing field title")
    ELSE IF w.title.json # "string" THEN DecodeError("invalid type")
    ELSE IF "authors" \notin DOMAIN w THEN
        DecodeOk(Book(w.title.v, SomeAuthors(<<>>)))
    ELSE IF w.authors.json = "null" THEN
        DecodeOk(Book(w.title.v, SomeAuthors(<<>>)))
    ELSE IF w.authors.json = "array" THEN
        DecodeOk(Book(w.title.v,
                      SomeAuthors([i \in 1..Len(w.authors.v) |-> w.authors.v[i].v])))
    ELSE DecodeError("invalid type")

\* Deserialize: title is required and must be a string; authors is an
\* Option, so a missing field and null both give None, an array gives
\* Some of its strings.
Decode(w) ==
    IF "title" \notin DOMAIN w THEN DecodeError("missing field title")
    ELSE IF w.title.json # "string" THEN DecodeError("invalid type")
    ELSE IF "authors" \notin DOMAIN w THEN
        DecodeOk(Book(w.title.v, NoAuthors))
    ELSE IF w.authors.json = "null" THEN
        DecodeOk(Book(w.title.v, NoAuthors))
    ELSE IF w.authors.json = "array" THEN
        DecodeOk(Book(w.title.v,
                      SomeAuthors([i \in 1..Len(w.authors.v) |-> w.authors.v[i].v])))
    ELSE DecodeError("invalid type")

\* The wire object without its authors field.
OmitAuthors(w) == [f \in (DOMAIN w) \ {"authors"} |-> w[f]]

\* The Books that are encoded and decoded.
Titles == {"", "Dune", "Emma"}
AuthorNames == {"Frank Herbert", "Jane Austen"}
AuthorLists == UNION { [1..n -> AuthorNames] : n \in 0..MaxAuthors }
Books ==
    { Book(t, a) : t \in Titles,
                   a \in {NoAuthors} \cup { SomeAuthors(l) : l \in AuthorLists } }

\* ------------------------------------------------------------ state
VARIABLES
    pc,         \* position of main: load_config, new_client, init, poll,
                \* pop, handle, done
    exit,       \* why the process ended: none, config_panic, init_panic,
                \* poll_panic, handle_panic, killed
    diag,       \* the panic message written to stderr, "" when none
    kubeconfig, \* the kubeconfig has been loaded
    client,     \* the APIClient exists
    polled,     \* informer.poll() has been called
    opens,      \* number of watch sessions opened (informer init)
    cursor,     \* the informer's resource version, 0 = "now"
    received,   \* notifications poll has received, in arrival order
    queue,      \* the informer's event queue
    event,      \* the event bound by `while let Some(event)`
    popped,     \* events removed from the queue by pop, in order
    handled,    \* events handle has been invoked with, in order
    out,        \* lines handle has printed
    pollErr,    \* the failure poll returned, none if it never failed
    handleErr,  \* a println! inside handle failed
    cancelled,  \* an external cancellation signal was delivered
    cpc,        \* position of the encode/decode run: idle, start, encoded,
                \* omitted, decoded
    book,       \* the Book being encoded
    wire,       \* its wire form
    decoded     \* the result of decoding the wire form

codecVars == <<cpc, book, wire, decoded>>

vars == <<pc, exit, diag, kubeconfig, client, polled, opens, cursor, received,
          queue, event, popped, handled, out, pollErr, handleErr, cancelled>>

\* The program before main's first statement.
MainInit ==
    /\ pc = "load_config"
    /\ exit = None
    /\ diag = ""
    /\ kubeconfig = FALSE
    /\ client = FALSE
    /\ polled = FALSE
    /\ opens = 0
    /\ cursor = 0
    /\ received = <<>>
    /\ queue = <<>>
    /\ event = NoEvent
    /\ popped = <<>>
    /\ handled = <<>>
    /\ out = <<>>
    /\ pollErr = None
    /\ handleErr = FALSE
    /\ cancelled = FALSE

\* expect(msg) on an Err: the thread panics with msg and the process ends.
Panic(cause, msg) ==
    /\ pc' = "done"
    /\ exit' = cause
    /\ diag' = msg

\* The kubeconfig load retried after a failure.
LoadConfig_Retry ==
    /\ pc = "load_config"
    /\ \/ /\ kubeconfig' = TRUE
          /\ pc' = "new_client"
          /\ UNCHANGED diag
       \/ /\ diag' = "kubeconfig failed to load"
          /\ UNCHANGED <<kubeconfig, pc>>
    /\ UNCHANGED <<exit, client, polled, opens, cursor, received, queue, event,
                   popped, handled, out, pollErr, handleErr, cancelled>>
    /\ UNCHANGED codecVars

\* config::load_kube_config().expect("kubeconfig failed to load")
LoadConfig ==
    /\ pc = "load_config"
    /\ \/ /\ kubeconfig' = TRUE
          /\ pc' = "new_client"
          /\ UNCHANGED <<exit, diag>>
       \/ /\ Panic("config_panic", "kubeconfig failed to load")
          /\ UNCHANGED kubeconfig
    /\ UNCHANGED <<client, polled, opens, cursor, received, queue, event,
                   popped, handled, out, pollErr, handleErr, cancelled>>
    /\ UNCHANGED codecVars

\* APIClient::new(kubeconfig) and the description of the resource.
NewClient ==
    /\ pc = "new_client"
    /\ client' = TRUE
    /\ pc' = "init"
    /\ UNCHANGED <<exit, diag, kubeconfig, polled, opens, cursor, received,
                   queue, event, popped, handled, out, pollErr, handleErr,
                   cancelled>>
    /\ UNCHANGED codecVars

\* The failure of init reported and the loop entered all the same.
InformerInit_Continue ==
    /\ pc = "init"
    /\ \/ /\ opens' = opens + 1
          /\ cursor' = 0
          /\ UNCHANGED diag
       \/ /\ diag' = "informer init failed"
          /\ UNCHANGED <<opens, cursor>>
    /\ pc' = "poll"
    /\ UNCHANGED <<exit, kubeconfig, client, polled, received, queue, event,
                   popped, handled, out, pollErr, handleErr, cancelled>>
    /\ UNCHANGED codecVars

\* Informer::raw(client, resource).init().expect("informer init failed")
InformerInit ==
    /\ pc = "init"
    /\ \/ /\ opens' = opens + 1
          /\ cursor' = 0
          /\ pc' = "poll"
          /\ UNCHANGED <<exit, diag>>
       \/ /\ Panic("init_panic", "informer init failed")
          /\ UNCHANGED <<opens, cursor>>
    /\ UNCHANGED <<kubeconfig, client, polled, received, queue, event, popped,
                   handled, out, pollErr, handleErr, cancelled>>
    /\ UNCHANGED codecVars

\* The batches the server can deliver next: up to MaxBatch notifications,
\* versions assigned by the server in increasing order.
RECURSIVE Batches(_, _)
Batches(k, rv) ==
    IF k = 0 THEN {<<>>}
    ELSE { <<RawNotification(t, rv, o)>> \o rest :
             t \in Types, o \in Objects, rest \in Batches(k - 1, rv + 1) }

NextBatches ==
    UNION { Batches(k, Len(received) + 1) :
              k \in 0..(IF MaxEvents - Len(received) < MaxBatch
                        THEN MaxEvents - Len(received) ELSE MaxBatch) }

\* Poll with the failure ignored (`let _ = informer.poll();`).
Poll_Ignore ==
    /\ pc = "poll"
    /\ polled' = TRUE
    /\ \/ \E batch \in NextBatches :
             /\ received' = received \o batch
             /\ queue' = queue \o NormalizeAll(batch)
             /\ cursor' = AdvanceCursor(cursor, batch)
             /\ pc' = "pop"
             /\ UNCHANGED pollErr
       \/ \E err \in PollErrors :
             /\ pollErr' = err
             /\ pc' = "pop"
             /\ UNCHANGED <<received, queue, cursor>>
    /\ UNCHANGED <<exit, diag, kubeconfig, client, opens, event, popped,
                   handled, out, handleErr, cancelled>>
    /\ UNCHANGED codecVars

\* Poll with a failure answered by re-opening the session.
Poll_Reopen ==
    /\ pc = "poll"
    /\ polled' = TRUE
    /\ \/ \E batch \in NextBatches :
             /\ received' = received \o batch
             /\ queue' = queue \o NormalizeAll(batch)
             /\ cursor' = AdvanceCursor(cursor, batch)
             /\ pc' = "pop"
             /\ UNCHANGED <<pollErr, opens, diag>>
       \/ \E err \in PollErrors :
             /\ opens < 3
             /\ pollErr' = err
             /\ opens' = opens + 1
             /\ cursor' = IF err = "Closed" THEN 0 ELSE cursor
             /\ diag' = IF err = "Closed" THEN "gap" ELSE diag
             /\ pc' = "poll"
             /\ UNCHANGED <<received, queue>>
    /\ UNCHANGED <<exit, kubeconfig, client, event, popped, handled, out,
                   handleErr, cancelled>>
    /\ UNCHANGED codecVars

\* informer.poll().expect("informer poll failed")
Poll ==
    /\ pc = "poll"
    /\ polled' = TRUE
    /\ \/ \E batch \in NextBatches :
             /\ received' = received \o batch
             /\ queue' = queue \o NormalizeAll(batch)
             /\ cursor' = AdvanceCursor(cursor, batch)
             /\ pc' = "pop"
             /\ UNCHANGED <<exit, diag, pollErr>>
       \/ \E err \in PollErrors :
             /\ pollErr' = err
             /\ Panic("poll_panic", "informer poll failed")
             /\ UNCHANGED <<received, queue, cursor>>
    /\ UNCHANGED <<kubeconfig, client, opens, event, popped, handled, out,
                   handleErr, cancelled>>
    /\ UNCHANGED codecVars

PopFrame ==
    /\ UNCHANGED <<exit, diag, kubeconfig, client, polled, opens, cursor, received,
                out, pollErr, handleErr, cancelled>>
    /\ UNCHANGED codecVars

\* Pop taking the newest event instead of the oldest.
Pop_Back ==
    /\ pc = "pop"
    /\ \/ /\ queue # <<>>
          /\ event' = queue[Len(queue)]
          /\ queue' = SubSeq(queue, 1, Len(queue) - 1)
          /\ popped' = Append(popped, queue[Len(queue)])
          /\ handled' = Append(handled, queue[Len(queue)])
          /\ pc' = "handle"
       \/ /\ queue = <<>>
          /\ pc' = "poll"
          /\ UNCHANGED <<event, queue, popped, handled>>
    /\ PopFrame

\* Pop called in the loop condition and again in the body: every other
\* event is dropped.
Pop_Skip ==
    /\ pc = "pop"
    /\ \/ /\ Len(queue) >= 2
          /\ event' = queue[2]
          /\ queue' = Tail(Tail(queue))
          /\ popped' = popped \o <<queue[1], queue[2]>>
          /\ handled' = Append(handled, queue[2])
          /\ pc' = "handle"
       \/ /\ Len(queue) = 1
          /\ queue' = <<>>
          /\ popped' = Append(popped, queue[1])
          /\ pc' = "poll"
          /\ UNCHANGED <<event, handled>>
       \/ /\ queue = <<>>
          /\ pc' = "poll"
          /\ UNCHANGED <<event, queue, popped, handled>>
    /\ PopFrame

\* The outer loop left once the queue is empty (poll once, then return).
Pop_Break ==
    /\ pc = "pop"
    /\ \/ /\ queue # <<>>
          /\ event' = Head(queue)
          /\ queue' = Tail(queue)
          /\ popped' = Append(popped, Head(queue))
          /\ handled' = Append(handled, Head(queue))
          /\ pc' = "handle"
       \/ /\ queue = <<>>
          /\ pc' = "done"
          /\ UNCHANGED <<event, queue, popped, handled>>
    /\ PopFrame

\* The drain loop filtering out the events of unknown kind.
Pop_Filter ==
    /\ pc = "pop"
    /\ \/ /\ queue # <<>>
          /\ Head(queue).kind # "BookmarkOrUnknown"
          /\ event' = Head(queue)
          /\ queue' = Tail(queue)
          /\ popped' = Append(popped, Head(queue))
          /\ handled' = Append(handled, Head(queue))
          /\ pc' = "handle"
       \/ /\ queue # <<>>
          /\ Head(queue).kind = "BookmarkOrUnknown"
          /\ queue' = Tail(queue)
          /\ popped' = Append(popped, Head(queue))
          /\ UNCHANGED <<event, handled, pc>>
       \/ /\ queue = <<>>
          /\ pc' = "poll"
          /\ UNCHANGED <<event, queue, popped, handled>>
    /\ PopFrame

\* while let Some(event) = informer.pop() { handle(event); }
\* the head of the queue is removed and handle is entered with it, or the
\* queue is empty and the loop goes back to poll.
Pop ==
    /\ pc = "pop"
    /\ \/ /\ queue # <<>>
          /\ event' = Head(queue)
          /\ queue' = Tail(queue)
          /\ popped' = Append(popped, Head(queue))
          /\ handled' = Append(handled, Head(queue))
          /\ pc' = "handle"
       \/ /\ queue = <<>>
          /\ pc' = "poll"
          /\ UNCHANGED <<event, queue, popped, handled>>
    /\ UNCHANGED <<exit, diag, kubeconfig, client, polled, opens, cursor, received,
                   out, pollErr, handleErr, cancelled>>
    /\ UNCHANGED codecVars

\* handle invoked a second time with the event it has just processed.
Handle_Twice ==
    /\ pc = "handle"
    /\ out' = Append(Append(out, HandleOutput(event)), HandleOutput(event))
    /\ handled' = Append(handled, event)
    /\ event' = NoEvent
    /\ pc' = "pop"
    /\ UNCHANGED <<exit, diag, handleErr, kubeconfig, client, polled, opens, cursor,
                   received, queue, popped, pollErr, cancelled>>
    /\ UNCHANGED codecVars

\* handle with its failure caught and reported, the loop going on.
Handle_Isolated ==
    /\ pc = "handle"
    /\ \/ /\ out' = Append(out, HandleOutput(event))
          /\ UNCHANGED handleErr
       \/ /\ handleErr' = TRUE
          /\ UNCHANGED out
    /\ event' = NoEvent
    /\ pc' = "pop"
    /\ UNCHANGED <<exit, diag, kubeconfig, client, polled, opens, cursor, received,
                   queue, popped, handled, pollErr, cancelled>>
    /\ UNCHANGED codecVars

\* `if let` instead of `while let`: one event per poll.
Handle_IfLet ==
    /\ pc = "handle"
    /\ \/ /\ out' = Append(out, HandleOutput(event))
          /\ event' = NoEvent
          /\ pc' = "poll"
          /\ UNCHANGED <<exit, diag, handleErr>>
       \/ /\ handleErr' = TRUE
          /\ Panic("handle_panic", "failed printing to stdout")
          /\ UNCHANGED <<out, event>>
    /\ UNCHANGED <<kubeconfig, client, polled, opens, cursor, received, queue,
                   popped, handled, pollErr, cancelled>>
    /\ UNCHANGED codecVars

\* handle given the informer and putting its event back on the queue.
Handle_Requeue ==
    /\ pc = "handle"
    /\ Len(out) < 4
    /\ out' = Append(out, HandleOutput(event))
    /\ queue' = Append(queue, event)
    /\ event' = NoEvent
    /\ pc' = "pop"
    /\ UNCHANGED <<exit, diag, handleErr, kubeconfig, client, polled, opens,
                   cursor, received, popped, handled, pollErr, cancelled>>
    /\ UNCHANGED codecVars

\* The body of handle: the match prints one line and returns; println!
\* panics when the write to stdout fails.
Handle ==
    /\ pc = "handle"
    /\ \/ /\ out' = Append(out, HandleOutput(event))
          /\ event' = NoEvent
          /\ pc' = "pop"
          /\ UNCHANGED <<exit, diag, handleErr>>
       \/ /\ handleErr' = TRUE
          /\ Panic("handle_panic", "failed printing to stdout")
          /\ UNCHANGED <<out, event>>
    /\ UNCHANGED <<kubeconfig, client, polled, opens, cursor, received, queue,
                   popped, handled, pollErr, cancelled>>
    /\ UNCHANGED codecVars

\* Cancellation that lets the loop flush its queue before it stops.
Cancel_Drain ==
    /\ pc # "done"
    /\ ~cancelled
    /\ cancelled' = TRUE
    /\ UNCHANGED <<pc, exit, diag, kubeconfig, client, polled, opens, cursor,
                   received, queue, event, popped, handled, out, pollErr,
                   handleErr>>
    /\ UNCHANGED codecVars

\* Cancellation answered by restarting the informer.
Cancel_Reopen ==
    /\ pc \in {"poll", "pop"}
    /\ ~cancelled
    /\ cancelled' = TRUE
    /\ pc' = "init"
    /\ UNCHANGED <<exit, diag, kubeconfig, client, polled, opens, cursor, received, queue,
                   event, popped, handled, out, pollErr, handleErr>>
    /\ UNCHANGED codecVars

\* An external cancellation signal: main installs no handler, so the
\* process is terminated where it stands.
Cancel ==
    /\ pc # "done"
    /\ cancelled' = TRUE
    /\ pc' = "done"
    /\ exit' = "killed"
    /\ UNCHANGED <<diag, kubeconfig, client, polled, opens, cursor, received, queue,
                   event, popped, handled, out, pollErr, handleErr>>
    /\ UNCHANGED codecVars

\* The steps of the program itself.
Step == LoadConfig \/ NewClient \/ InformerInit \/ Poll \/ Pop \/ Handle

Next == Step \/ Cancel

\* main encodes and decodes no Book itself.
CodecIdle ==
    /\ cpc = "idle"
    /\ book = Book("", NoAuthors)
    /\ wire = <<>>
    /\ decoded = DecodeError("none")

Init == MainInit /\ CodecIdle

Spec == Init /\ [][Next]_<<vars, codecVars>>

\* The process is scheduled as long as it has a step to take.
FairSpec == Spec /\ WF_vars(Step)

\* The state of the informer loop, read off the program's state.
LoopState ==
    IF pc = "done" THEN "Stopped"
    ELSE IF cancelled THEN "Draining"
    ELSE IF pc \in {"load_config", "new_client", "init"} THEN "Starting"
    ELSE "Watching"

TypeOK ==
    /\ pc \in {"load_config", "new_client", "init", "poll", "pop", "handle", "done"}
    /\ exit \in {None, "config_panic", "init_panic", "poll_panic", "handle_panic", "killed"}
    /\ opens \in 0..1
    /\ cursor \in 0..MaxEvents
    /\ Len(received) <= MaxEvents
    /\ pollErr \in {None} \cup PollErrors
    /\ handleErr \in BOOLEAN
    /\ cancelled \in BOOLEAN

\* ------------------------------------------------------------ round trip
\* A Book is encoded, its authors field is or is not taken off the wire
\* object, and the wire object is decoded.
CodecInit ==
    /\ MainInit
    /\ cpc = "start"
    /\ book \in Books
    /\ wire = <<>>
    /\ decoded = DecodeError("none")

EncodeBook ==
    /\ cpc = "start"
    /\ wire' = Encode(book)
    /\ cpc' = "encoded"
    /\ UNCHANGED <<book, decoded>>
    /\ UNCHANGED vars

DropAuthorsField ==
    /\ cpc = "encoded"
    /\ wire' = OmitAuthors(wire)
    /\ cpc' = "omitted"
    /\ UNCHANGED <<book, decoded>>
    /\ UNCHANGED vars

DecodeBook ==
    /\ cpc \in {"encoded", "omitted"}
    /\ decoded' = Decode(wire)
    /\ cpc' = IF cpc = "encoded" THEN "decoded" ELSE "decoded_omitted"
    /\ UNCHANGED <<book, wire>>
    /\ UNCHANGED vars

CodecNext == EncodeBook \/ DropAuthorsField \/ DecodeBook

RoundTripSpec == CodecInit /\ [][CodecNext]_<<vars, codecVars>>

\* ------------------------------------------------------------ claims

\* s is an order-preserving subsequence of t.
RECURSIVE IsSubseq(_, _)
IsSubseq(s, t) ==
    IF s = <<>> THEN TRUE
    ELSE IF t = <<>> THEN FALSE
    ELSE IF Head(s) = Head(t) THEN IsSubseq(Tail(s), Tail(t))
    ELSE IsSubseq(s, Tail(t))

\* C1: handle is invoked exactly once for each event pop removed from the
\* queue, in the order of the pops, and at most one invocation is in
\* progress: an invocation has begun and not returned exactly while an
\* event is bound, and that event is the last one handle was entered with.
C1_HandleOncePerPop ==
    /\ handled = popped
    /\ Len(handled) - Len(out) \in {0, 1}
    /\ (Len(handled) - Len(out) = 1) <=> (event # NoEvent)
    /\ event # NoEvent => event = handled[Len(handled)]
    /\ pc = "handle" => event # NoEvent
    /\ pc \in {"poll", "pop"} => event = NoEvent

\* A second invocation is in progress after the first has returned.
C1_Witness ==
    /\ pc = "handle"
    /\ Len(popped) = 2
    /\ Len(handled) = 2
    /\ Len(out) = 1

\* C2: the events passed to handle are an order-preserving subsequence of
\* the notifications poll received, and for one resource instance their
\* resource versions never decrease.
C2_OrderPreserved ==
    /\ IsSubseq(handled, NormalizeAll(received))
    /\ \A i, j \in 1..Len(handled) :
          (i < j /\ handled[i].book.name = handled[j].book.name)
             => handled[i].rv <= handled[j].rv

\* Two events of one instance dispatched around an event of another.
C2_Witness ==
    /\ Len(handled) = 3
    /\ handled[1].book.name = "dune"
    /\ handled[2].book.name = "emma"
    /\ handled[3].book.name = "dune"
    /\ handled[1].rv < handled[3].rv
    /\ cursor = 3

\* C3: whenever the loop is back at poll without any failure, handle has
\* been invoked, and has returned, once per notification received so far,
\* with the same kinds in the same order and the same payloads.
C3_AllDelivered ==
    (pc = "poll" /\ exit = None) =>
        /\ Len(handled) = Len(received)
        /\ Len(out) = Len(received)
        /\ \A i \in 1..Len(received) :
              /\ handled[i].kind = KindOf(received[i].type)
              /\ handled[i].book = received[i].object
              /\ handled[i].rv = received[i].rv

\* Added("Dune", v1), Modified("Dune", v2, authors added),
\* Deleted("Dune", v3) gave three invocations of those kinds.
C3_Witness ==
    /\ pc = "poll"
    /\ Len(received) = 3
    /\ received[1].type = "ADDED" /\ received[1].object.spec.authors = NoAuthors
    /\ received[2].type = "MODIFIED" /\ received[2].object.spec.authors # NoAuthors
    /\ received[3].type = "DELETED"
    /\ \A i \in 1..3 : received[i].object.name = "dune" /\ received[i].rv = i
    /\ Len(handled) = 3
    /\ Len(out) = 3
    /\ handled[1].kind = "Added"
    /\ handled[2].kind = "Modified"
    /\ handled[3].kind = "Deleted"

\* C4 as stated: a Transient or Closed failure of poll does not stop the
\* loop.
C4_Original ==
    pollErr \in {"Transient", "Closed"} => LoopState # "Stopped"

\* C4 as amended: any failure of poll, Transient and Closed like Fatal,
\* is a panic of main with "informer poll failed": the loop is stopped by
\* it and by nothing else is the exit a poll panic.
C4_PollFailureTerminates ==
    /\ pollErr # None =>
          /\ LoopState = "Stopped"
          /\ exit = "poll_panic"
          /\ ~ENABLED Next
    /\ exit = "poll_panic" => pollErr # None

\* A Transient failure after events had been dispatched.
C4_Witness ==
    /\ pollErr = "Transient"
    /\ pc = "done"
    /\ Len(out) >= 1

\* Without a panic and without the signal the loop comes back to poll
\* again and again.
KeepsPolling == ([]<>(pc = "poll")) \/ <>(pc = "done")

\* C5 as stated: the loop is stopped only by a Fatal error (a failed
\* start and a panic inside handle counted as fatal too), or by
\* cancellation; there is no retry budget in the program to exhaust.
C5_Original ==
    pc = "done" =>
        \/ exit = "killed"
        \/ exit \in {"config_panic", "init_panic", "handle_panic"}
        \/ exit = "poll_panic" /\ pollErr = "Fatal"

\* C5 as amended: the program ends only by a panic (kubeconfig load,
\* informer init, any failure of poll, a failed print in handle) or by
\* the external signal, each with its cause on record; as long as none
\* has happened the program has a next step to take.
C5_StopsOnlyOnPanicOrKill ==
    /\ (pc = "done") <=> (exit # None)
    /\ (exit = "config_panic") => (~kubeconfig /\ ~client /\ opens = 0)
    /\ (exit = "init_panic") => (kubeconfig /\ client /\ opens = 0)
    /\ (exit = "poll_panic") <=> (pollErr # None)
    /\ (exit = "handle_panic") <=> handleErr
    /\ (exit = "killed") <=> cancelled
    /\ (exit = None) => ENABLED Step

\* The loop stopped by a Closed failure of poll.
C5_Witness ==
    /\ pc = "done"
    /\ exit = "poll_panic"
    /\ pollErr = "Closed"

\* C6 as stated: a failure of handle is never what stops the loop.
C6_Original ==
    handleErr => exit # "handle_panic"

\* C6 as amended: handle returns no error; its only failure is the panic
\* of a failed print, which ends the program in that invocation: the line
\* is not printed, the events still queued are never dispatched and poll
\* is not called again.
C6_HandlerPanicStops ==
    handleErr =>
        /\ pc = "done"
        /\ exit = "handle_panic"
        /\ Len(out) = Len(handled) - 1
        /\ ~ENABLED Next

\* handle failed on the first of two queued events.
C6_Witness ==
    /\ handleErr
    /\ Len(handled) = 1
    /\ Len(queue) = 1

\* C7 as stated: once cancellation has stopped the loop, every event that
\* was queued has been dispatched.
C7_Original ==
    (cancelled /\ LoopState = "Stopped") => queue = <<>>

\* C7 as amended: the cancellation signal ends the program on the spot;
\* no step follows it, so the events queued at that moment stay in the
\* queue and are never dispatched.
C7_CancelKills ==
    cancelled =>
        /\ pc = "done"
        /\ exit = "killed"
        /\ Len(handled) + Len(queue) = Len(received)
        /\ ~ENABLED Next

\* Cancellation with two events still queued.
C7_Witness ==
    /\ cancelled
    /\ Len(queue) = 2
    /\ handled = <<>>

\* C8 as stated: the step that delivers the cancellation signal to a
\* Watching loop takes it to Draining.
C8_Original ==
    [][(LoopState = "Watching" /\ ~cancelled /\ cancelled')
          => LoopState' = "Draining"]_vars

\* C8 as amended: after the cancellation signal the loop is never in
\* Draining, it is stopped, and no watch session is opened: the informer
\* is initialised at most once and not after the signal.
C8_NoDrainingNoReopen ==
    /\ LoopState # "Draining"
    /\ opens <= 1
    /\ cancelled => ~ENABLED InformerInit

\* Cancellation of a loop whose session was open.
C8_Witness ==
    /\ cancelled
    /\ opens = 1
    /\ LoopState = "Stopped"

\* C9 as stated: handle is never invoked with an event of kind
\* BookmarkOrUnknown.
C9_Original ==
    \A i \in 1..Len(handled) : handled[i].kind # "BookmarkOrUnknown"

\* C9 as amended: a notification of unrecognized type is normalized to
\* BookmarkOrUnknown and is dispatched like any other: every event popped
\* is passed to handle, and for a kind other than Added and Deleted the
\* catch-all arm prints "another event".
C9_UnknownDispatched ==
    /\ \A i \in 1..Len(received) :
          received[i].type \notin {"ADDED", "MODIFIED", "DELETED", "ERROR"}
             => (popped \o queue)[i].kind = "BookmarkOrUnknown"
    /\ \A i \in 1..Len(popped) :
          popped[i].kind = "BookmarkOrUnknown"
             => (i <= Len(handled) /\ handled[i] = popped[i])
    /\ \A i \in 1..Len(out) :
          handled[i].kind \notin {"Added", "Deleted"}
             => out[i] = <<"another event">>

\* handle ran on an event of kind BookmarkOrUnknown.
C9_Witness ==
    \E i \in 1..Len(out) :
        /\ received[i].type = "BOOKMARK"
        /\ handled[i].kind = "BookmarkOrUnknown"
        /\ out[i] = <<"another event">>

C12_CursorAfterEnqueue ==
    /\ [](/\ cursor = HighestVersion(0, received)
          /\ popped \o queue = NormalizeAll(received)
          /\ \A i \in 1..Len(received) : received[i].rv <= cursor)
    /\ [][cursor' # cursor =>
             /\ Len(received') > Len(received)
             /\ popped' \o queue' = NormalizeAll(received')
             /\ cursor' = received'[Len(received')].rv]_vars

\* The cursor after a batch of two that followed a batch of one.
C12_Witness ==
    /\ cursor = 3
    /\ Len(queue) = 2
    /\ Len(popped) = 1

C14_HandleFrame ==
    [][pc = "handle" =>
          /\ queue' = queue
          /\ cursor' = cursor
          /\ opens' = opens
          /\ received' = received
          /\ polled' = polled
          /\ pollErr' = pollErr]_vars

\* handle has returned with an event still queued and the cursor set.
C14_Witness ==
    /\ pc = "pop"
    /\ Len(out) = 1
    /\ Len(queue) = 1
    /\ cursor = 2

\* C15: once the load of the kubeconfig has failed the program has ended:
\* no client, no watch session, no poll, no event dispatched, and no
\* further step, so no retry.
C15_ConfigFailureFatal ==
    diag = "kubeconfig failed to load" =>
        /\ pc = "done"
        /\ exit = "config_panic"
        /\ ~kubeconfig
        /\ ~client
        /\ opens = 0
        /\ ~polled
        /\ handled = <<>>
        /\ ~ENABLED Next

\* The kubeconfig failed to load.
C15_Witness ==
    /\ exit = "config_panic"
    /\ diag = "kubeconfig failed to load"

\* C16: decoding the encoding of a Book gives a Book with the same title
\* and the same authors, present or absent; decoding an encoding whose
\* authors field is absent succeeds with absent authors.
C16_RoundTrip ==
    /\ cpc = "decoded" =>
          /\ decoded.ok
          /\ decoded.book.title = book.title
          /\ decoded.book.authors = book.authors
    /\ cpc = "decoded_omitted" =>
          /\ decoded.ok
          /\ decoded.book.title = book.title
          /\ decoded.book.authors = NoAuthors

\* "Dune" by Frank Herbert decoded from its encoding.
C16_Witness ==
    /\ cpc = "decoded"
    /\ book = Book("Dune", SomeAuthors(<<"Frank Herbert">>))
    /\ wire = Encode(book)
    /\ wire.authors.json = "array"
    /\ decoded = DecodeOk(book)

\* A Book decoded from an encoding without the authors field.
OmittedAuthorsDecoded ==
    /\ cpc = "decoded_omitted"
    /\ "authors" \notin DOMAIN wire
    /\ decoded.ok
    /\ decoded.book.authors = NoAuthors

\* C17: poll is called, and an event dispatched, only after init has
\* succeeded; a failed init ends the program without any poll.
C17_WatchingOnlyAfterOpen ==
    /\ (polled \/ handled # <<>> \/ pc \in {"poll", "pop", "handle"}) => opens = 1
    /\ diag = "informer init failed" =>
          /\ pc = "done"
          /\ exit = "init_panic"
          /\ opens = 0
          /\ ~polled
          /\ handled = <<>>
          /\ ~ENABLED Next

\* init failed with the client built.
C17_Witness ==
    /\ exit = "init_panic"
    /\ client
    /\ ~polled

\* C18: whenever poll is about to be called the queue is empty and every
\* event enqueued so far has been through handle; so is it when poll has
\* failed: a poll failure finds no queued event to discard.
C18_QueueEmptyAtPoll ==
    /\ pc = "poll" =>
          /\ queue = <<>>
          /\ event = NoEvent
          /\ Len(out) = Len(received)
    /\ pollErr # None =>
          /\ queue = <<>>
          /\ event = NoEvent
          /\ Len(out) = Len(received)

\* poll failed after two events had been enqueued and drained.
C18_Witness ==
    /\ pollErr # None
    /\ Len(out) = 2
    /\ cursor = 2
    /\ queue = <<>>

\* C19: the informer is initialised at most once, and once poll has
\* failed no step changes the program's state: no open, no poll, no
\* invocation of handle.
C19_TerminatedAbsorbing ==
    /\ [](opens <= 1)
    /\ [][opens' >= opens]_vars
    /\ [][pollErr # None => UNCHANGED vars]_vars

\* poll failed after the session had been opened and events handled.
C19_Witness ==
    /\ pollErr # None
    /\ opens = 1
    /\ polled
    /\ Len(handled) >= 1
====
